---- MODULE Spec2Model ----
(***************************************************************************)
(* hyper-usse: an SSE server (src/src/lib.rs) shared behind a mutex by the *)
(* request tasks and the driver of the examples (src/examples/*.rs).       *)
(*                                                                         *)
(* A handle is a hyper body Sender, named by a number.  The Server's       *)
(* `clients` vector is a sequence of handles.  send_to_clients is an async *)
(* function: it is modelled by three steps, the call (all writes are       *)
(* issued), the resolution of one write, and the return (retain + len).    *)
(***************************************************************************)
EXTENDS Integers, Sequences, FiniteSets, TLC

\* Number of body channels (accepted /sse requests) in one behaviour.
MaxHandles == 2

Handles == 1..MaxHandles

\* The text send_heartbeat passes to send_to_clients.
HEARTBEAT == <<":", "\n", "\n">>

(***************************************************************************)
(* EventBuilder.  A str is a sequence of one-character strings; an         *)
(* Option<&str> is <<>> (None) or a one-element sequence (Some).           *)
(***************************************************************************)

\* Longest data text and longest id / event type text of the events built.
MaxData == 3
MaxField == 2

BoundedSeq(S, n) == UNION { [1..k -> S] : k \in 0..n }

\* The data texts, and the id and event type texts, a caller passes.
Datas == BoundedSeq({"a", "\n"}, MaxData) \cup { <<"a", "\n", "b">> }
Ids == BoundedSeq({"1", "\n"}, MaxField)
EventTypes == BoundedSeq({"1", "\n"}, MaxField) \cup { <<"m", "s", "g">> }

Option(S) == { <<>> } \cup { <<x>> : x \in S }

\* struct EventBuilder { data, id, event_type }
EventBuilder == [data : Datas, id : Option(Ids), event_type : Option(EventTypes)]

\* EventBuilder::new
New(data) == [data |-> data, id |-> <<>>, event_type |-> <<>>]

\* str::lines strips the "\r" of a line that ends in "\r\n".
StripCR(line) ==
    IF line # <<>> /\ line[Len(line)] = "\r" THEN SubSeq(line, 1, Len(line) - 1) ELSE line

\* str::lines: the text is cut after every "\n", which is not part of the
\* line; what follows the last "\n" is a line only when it is not empty.
RECURSIVE LinesFrom(_, _)
LinesFrom(s, cur) ==
    IF s = <<>> THEN (IF cur = <<>> THEN <<>> ELSE <<cur>>)
    ELSE IF Head(s) = "\n" THEN <<StripCR(cur)>> \o LinesFrom(Tail(s), <<>>)
    ELSE LinesFrom(Tail(s), Append(cur, Head(s)))

Lines(s) == LinesFrom(s, <<>>)

\* for line in self.data.lines() { push_str("data: "); push_str(line); push('\n') }
RECURSIVE DataLines(_)
DataLines(ls) ==
    IF ls = <<>> THEN <<>>
    ELSE <<"d", "a", "t", "a", ":", " ">> \o Head(ls) \o <<"\n">> \o DataLines(Tail(ls))

BuildEventFirst(b) ==
    LET idLine == IF b.id # <<>>
                  THEN <<"i", "d", ":", " ">> \o b.id[1] \o <<"\n">>
                  ELSE <<>>
        eventLine == IF b.event_type # <<>>
                     THEN <<"e", "v", "e", "n", "t", ":", " ">> \o b.event_type[1] \o <<"\n">>
                     ELSE <<>>
    IN  eventLine \o idLine \o DataLines(Lines(b.data)) \o <<"\n">>

\* EventBuilder::build
Build(b) ==
    LET idLine == IF b.id # <<>>
                  THEN <<"i", "d", ":", " ">> \o b.id[1] \o <<"\n">>
                  ELSE <<>>
        eventLine == IF b.event_type # <<>>
                     THEN <<"e", "v", "e", "n", "t", ":", " ">> \o b.event_type[1] \o <<"\n">>
                     ELSE <<>>
    IN  idLine \o eventLine \o DataLines(Lines(b.data)) \o <<"\n">>

\* The texts a caller passes to send_to_clients: an encoded event with one
\* data line, and the comment-only frame.
Texts == { Build(New(<<"x">>)), <<":", "\n", "\n">> }

VARIABLES
    clients,  \* Server.clients : Vec<Sender>
    pc,       \* the driver: "idle", or "sending" inside send_to_clients (lock held)
    bytes,    \* send_to_clients: the text being sent
    sent,     \* send_to_clients: the join_all slots, "pending" / "ok" / "err"
    ret,      \* value returned by the last send_to_clients/send_heartbeat/connections
    call,     \* name of the registry method called last
    io,       \* the writes / aborts the last registry method issued, in order
    before,   \* the collection when the last registry method was called
    req,      \* per handle: "none", "waiting" (for the lock), "added"
    chan,     \* per handle: the body channel, "none" / "open" / "closed"
    ready,    \* per handle: the channel can take a chunk (the client drained it)
    aborts,   \* per handle: number of Sender::abort calls
    closedAtAttach, \* history: the handles whose channel was closed when add_client took them
    builder,  \* an EventBuilder value
    encoded   \* the String build() returned for it, <<>> before the call

vars == <<clients, pc, bytes, sent, ret, call, io, before, req, chan, ready, aborts,
          closedAtAttach, builder, encoded>>

Range(s) == { s[i] : i \in DOMAIN s }

LockFreeAcrossAwait == pc \in {"idle", "sending"}

\* The Server is behind `sse.lock().await`: a method runs only with the lock
\* free, and send_to_clients keeps it across its awaited writes.
LockFree == pc = "idle"

Write(h, text) == [op |-> "write", h |-> h, text |-> text]
Abort(h) == [op |-> "abort", h |-> h, text |-> <<>>]

\* Server::new
ServerInit ==
    /\ clients = <<>>
    /\ pc = "idle"
    /\ bytes = <<>>
    /\ sent = <<>>
    /\ ret = 0
    /\ call = "new"
    /\ io = <<>>
    /\ before = <<>>
    /\ req = [h \in Handles |-> "none"]
    /\ chan = [h \in Handles |-> "none"]
    /\ ready = [h \in Handles |-> FALSE]
    /\ aborts = [h \in Handles |-> 0]
    /\ closedAtAttach = {}

\* The examples' servers: the events sent are EventBuilder::new(..) values
\* built inside send_to_clients.
Init ==
    /\ ServerInit
    /\ builder = New(<<"x">>)
    /\ encoded = <<>>

server == <<clients, pc, bytes, sent, ret, call, io, before, req, chan, ready, aborts,
            closedAtAttach>>

\* let builder = EventBuilder::new(data)
EncInit ==
    /\ ServerInit
    /\ builder \in { New(data) : data \in Datas }
    /\ encoded = <<>>

\* EventBuilder::data
SetData(data) ==
    /\ encoded = <<>>
    /\ builder' = [builder EXCEPT !.data = data]
    /\ UNCHANGED <<server, encoded>>

\* EventBuilder::id
SetId(id) ==
    /\ encoded = <<>>
    /\ builder' = [builder EXCEPT !.id = <<id>>]
    /\ UNCHANGED <<server, encoded>>

\* EventBuilder::event_type
SetEventType(event_type) ==
    /\ encoded = <<>>
    /\ builder' = [builder EXCEPT !.event_type = <<event_type>>]
    /\ UNCHANGED <<server, encoded>>

\* EventBuilder::clear_id
ClearId ==
    /\ encoded = <<>>
    /\ builder' = [builder EXCEPT !.id = <<>>]
    /\ UNCHANGED <<server, encoded>>

\* EventBuilder::clear_type
ClearType ==
    /\ encoded = <<>>
    /\ builder' = [builder EXCEPT !.event_type = <<>>]
    /\ UNCHANGED <<server, encoded>>

\* let text = builder.build()
BuildEvent ==
    /\ encoded = <<>>
    /\ encoded' = Build(builder)
    /\ UNCHANGED <<server, builder>>

EncNext ==
    \/ \E data \in Datas : SetData(data)
    \/ \E id \in Ids : SetId(id)
    \/ \E event_type \in EventTypes : SetEventType(event_type)
    \/ ClearId
    \/ ClearType
    \/ BuildEvent

EncSpec == EncInit /\ [][EncNext]_vars

\* process_request, GET /sse: Body::channel() makes a new handle; the task
\* then waits for the lock.
Accept(h) ==
    /\ req[h] = "none"
    /\ \A g \in Handles : g < h => req[g] # "none"
    /\ req' = [req EXCEPT ![h] = "waiting"]
    /\ chan' = [chan EXCEPT ![h] = "open"]
    /\ ready' = [ready EXCEPT ![h] = TRUE]
    /\ UNCHANGED <<builder, encoded, closedAtAttach, clients, pc, bytes, sent, ret, call, io, before, aborts>>

PushReplacing(v, x) == <<x>>

\* Vec::push
Push(v, x) == Append(v, x)

AddClientValidating(h) ==
    /\ LockFree
    /\ req[h] = "waiting"
    /\ clients' = IF chan[h] = "open" THEN Push(clients, h) ELSE clients
    /\ req' = [req EXCEPT ![h] = "added"]
    /\ call' = "add_client"
    /\ io' = <<>>
    /\ before' = clients
    /\ closedAtAttach' = IF chan[h] = "closed" THEN closedAtAttach \cup {h} ELSE closedAtAttach
    /\ UNCHANGED <<builder, encoded, pc, bytes, sent, ret, chan, ready, aborts>>

\* Server::add_client, called by the request task once it has the lock.
AddClient(h) ==
    /\ LockFree
    /\ req[h] = "waiting"
    /\ clients' = Push(clients, h)
    /\ req' = [req EXCEPT ![h] = "added"]
    /\ call' = "add_client"
    /\ io' = <<>>
    /\ before' = clients
    /\ closedAtAttach' = IF chan[h] = "closed" THEN closedAtAttach \cup {h} ELSE closedAtAttach
    /\ UNCHANGED <<builder, encoded, pc, bytes, sent, ret, chan, ready, aborts>>

\* The peer goes away: the receiving half of the body channel is dropped.
ClientDisconnect(h) ==
    /\ chan[h] = "open"
    /\ chan' = [chan EXCEPT ![h] = "closed"]
    /\ UNCHANGED <<builder, encoded, closedAtAttach, clients, pc, bytes, sent, ret, call, io, before, req, ready, aborts>>

\* The peer reads the chunk in flight: the channel can take another one.
ClientDrain(h) ==
    /\ chan[h] = "open"
    /\ ~ready[h]
    /\ ready' = [ready EXCEPT ![h] = TRUE]
    /\ UNCHANGED <<builder, encoded, closedAtAttach, clients, pc, bytes, sent, ret, call, io, before, req, chan, aborts>>

DispatchFirst(v, text) == IF v = <<>> THEN <<>> ELSE << Write(v[1], text) >>

\* join_all over clients.iter_mut().map(..): one future per element, in order,
\* each calling send_data with a clone of the same bytes.
Dispatch(v, text) == [i \in 1..Len(v) |-> Write(v[i], text)]

\* send_to_clients up to its await: the lock is taken and every write is issued.
SendBegin(text, name) ==
    /\ LockFree
    /\ pc' = "sending"
    /\ bytes' = text
    /\ sent' = [i \in 1..Len(clients) |-> "pending"]
    /\ io' = Dispatch(clients, text)
    /\ call' = name
    /\ before' = clients
    /\ UNCHANGED <<builder, encoded, closedAtAttach, clients, ret, req, chan, ready, aborts>>

\* Server::send_to_clients
SendToClients == \E text \in Texts : SendBegin(text, "send_to_clients")

SendHeartbeatShort == SendBegin(<<":", "\n">>, "send_heartbeat")

\* Server::send_heartbeat
SendHeartbeat == SendBegin(HEARTBEAT, "send_heartbeat")

MayResolveInOrder(i) == \A j \in 1..(i - 1) : sent[j] # "pending"

\* Which slots of join_all may make progress: every one, independently.
MayResolve(i) == TRUE

WriteResolveNoWait(i) ==
    /\ pc = "sending"
    /\ i \in DOMAIN sent
    /\ sent[i] = "pending"
    /\ LET h == clients[i] IN
         \/ /\ ~(chan[h] = "open" /\ ready[h])
            /\ sent' = [sent EXCEPT ![i] = "err"]
            /\ UNCHANGED ready
         \/ /\ chan[h] = "open"
            /\ ready[h]
            /\ sent' = [sent EXCEPT ![i] = "ok"]
            /\ ready' = [ready EXCEPT ![h] = FALSE]
    /\ UNCHANGED <<builder, encoded, closedAtAttach, clients, pc, bytes, ret, call, io, before, req, chan, aborts>>

\* client.send_data(bytes).await.is_ok() of slot i resolves: an error when the
\* channel is closed, success (the chunk is in the channel) when it has room,
\* and no resolution while the channel is open and full.
WriteResolve(i) ==
    /\ pc = "sending"
    /\ i \in DOMAIN sent
    /\ sent[i] = "pending"
    /\ MayResolve(i)
    /\ LET h == clients[i] IN
         \/ /\ chan[h] # "open"
            /\ sent' = [sent EXCEPT ![i] = "err"]
            /\ UNCHANGED ready
         \/ /\ chan[h] = "open"
            /\ ready[h]
            /\ sent' = [sent EXCEPT ![i] = "ok"]
            /\ ready' = [ready EXCEPT ![h] = FALSE]
    /\ UNCHANGED <<builder, encoded, closedAtAttach, clients, pc, bytes, ret, call, io, before, req, chan, aborts>>

JoinedAny(s) == s = <<>> \/ \E i \in DOMAIN s : s[i] # "pending"

JoinedAllOk(s) == \A i \in DOMAIN s : s[i] = "ok"

\* join_all(..).await is ready: every slot holds its output.
Joined(s) == \A i \in DOMAIN s : s[i] # "pending"

JoinAllOnlyOk(s) == [i \in 1..Cardinality({ j \in DOMAIN s : s[j] = "ok" }) |-> TRUE]

JoinAllIsErr(s) == [i \in DOMAIN s |-> s[i] = "err"]

\* join_all's output: the is_ok() of each future, in the order of the futures.
JoinAll(s) == [i \in DOMAIN s |-> s[i] = "ok"]

RECURSIVE RetainBackwards(_, _)
RetainBackwards(v, it) ==
    IF v = <<>> THEN <<>>
    ELSE (IF it[Len(it)] THEN <<Head(v)>> ELSE <<>>)
             \o RetainBackwards(Tail(v), SubSeq(it, 1, Len(it) - 1))

\* self.clients.retain(|_| sent.next().unwrap()): the elements are visited in
\* order, each taking the next item of the iterator.
RECURSIVE Retain(_, _)
Retain(v, it) ==
    IF v = <<>> THEN <<>>
    ELSE (IF Head(it) THEN <<Head(v)>> ELSE <<>>) \o Retain(Tail(v), Tail(it))

SendCompleteStaleLen ==
    /\ pc = "sending"
    /\ Joined(sent)
    /\ clients' = Retain(clients, JoinAll(sent))
    /\ ret' = Len(clients)
    /\ pc' = "idle"
    /\ sent' = <<>>
    /\ UNCHANGED <<builder, encoded, closedAtAttach, bytes, call, io, before, req, chan, ready, aborts>>

\* sent.next().unwrap() panics when the iterator has no item left for an
\* element of the vector.
RetainPanics(v, it) == Len(it) < Len(v)

\* send_to_clients after its await: retain, return the length, release the
\* lock.  When the closure of retain panics, the call does not return: the
\* elements visited so far are retained or dropped and the others are kept.
SendComplete ==
    /\ pc = "sending"
    /\ Joined(sent)
    /\ LET it == JoinAll(sent) IN
         IF RetainPanics(clients, it)
         THEN /\ clients' = Retain(SubSeq(clients, 1, Len(it)), it)
                               \o SubSeq(clients, Len(it) + 1, Len(clients))
              /\ pc' = "panicked"
              /\ UNCHANGED <<ret, sent>>
         ELSE /\ clients' = Retain(clients, it)
              /\ ret' = Len(clients')
              /\ pc' = "idle"
              /\ sent' = <<>>
    /\ UNCHANGED <<builder, encoded, closedAtAttach, bytes, call, io, before, req, chan, ready, aborts>>

DisconnectAllKeeping ==
    /\ LockFree
    /\ clients' = clients
    /\ aborts' = [h \in Handles |->
                    aborts[h] + Cardinality({i \in DOMAIN clients : clients[i] = h})]
    /\ chan' = [h \in Handles |-> IF h \in Range(clients) THEN "closed" ELSE chan[h]]
    /\ io' = [i \in 1..Len(clients) |-> Abort(clients[i])]
    /\ call' = "disconnect_all"
    /\ before' = clients
    /\ UNCHANGED <<builder, encoded, closedAtAttach, pc, bytes, sent, ret, req, ready>>

DisconnectAllNoLock ==
    /\ clients' = <<>>
    /\ aborts' = [h \in Handles |->
                    aborts[h] + Cardinality({i \in DOMAIN clients : clients[i] = h})]
    /\ chan' = [h \in Handles |-> IF h \in Range(clients) THEN "closed" ELSE chan[h]]
    /\ io' = [i \in 1..Len(clients) |-> Abort(clients[i])]
    /\ call' = "disconnect_all"
    /\ before' = clients
    /\ UNCHANGED <<builder, encoded, closedAtAttach, pc, bytes, sent, ret, req, ready>>

\* Server::disconnect_all: mem::replace takes the vector, every element of it
\* is aborted (which closes its channel) and dropped.
DisconnectAll ==
    /\ LockFree
    /\ clients' = <<>>
    /\ aborts' = [h \in Handles |->
                    aborts[h] + Cardinality({i \in DOMAIN clients : clients[i] = h})]
    /\ chan' = [h \in Handles |-> IF h \in Range(clients) THEN "closed" ELSE chan[h]]
    /\ io' = [i \in 1..Len(clients) |-> Abort(clients[i])]
    /\ call' = "disconnect_all"
    /\ before' = clients
    /\ UNCHANGED <<builder, encoded, closedAtAttach, pc, bytes, sent, ret, req, ready>>

ConnectionsPruning ==
    /\ LockFree
    /\ clients' = SelectSeq(clients, LAMBDA h : chan[h] = "open")
    /\ ret' = Len(clients')
    /\ call' = "connections"
    /\ io' = <<>>
    /\ before' = clients
    /\ UNCHANGED <<builder, encoded, closedAtAttach, pc, bytes, sent, req, chan, ready, aborts>>

\* Server::connections
Connections ==
    /\ LockFree
    /\ ret' = Len(clients)
    /\ call' = "connections"
    /\ io' = <<>>
    /\ before' = clients
    /\ UNCHANGED <<builder, encoded, closedAtAttach, clients, pc, bytes, sent, req, chan, ready, aborts>>

Next ==
    \/ \E h \in Handles : Accept(h)
    \/ \E h \in Handles : AddClient(h)
    \/ \E h \in Handles : ClientDisconnect(h)
    \/ \E h \in Handles : ClientDrain(h)
    \/ SendToClients
    \/ SendHeartbeat
    \/ \E i \in Handles : WriteResolve(i)
    \/ SendComplete
    \/ DisconnectAll
    \/ Connections

Spec == Init /\ [][Next]_vars

\* The executor polls a future that can make progress: a write that can
\* resolve does, and a joined send_to_clients returns.  Nothing makes a
\* client drain its stream.
FairSpec ==
    /\ Spec
    /\ WF_vars(SendComplete)
    /\ \A i \in Handles : WF_vars(WriteResolve(i))

TypeOK ==
    /\ clients \in Seq(Handles)
    /\ pc \in {"idle", "sending", "panicked"}
    /\ ret \in 0..MaxHandles
    /\ Len(sent) <= MaxHandles

(***************************************************************************)
(* Claims.                                                                 *)
(***************************************************************************)

Sends == {"send_to_clients", "send_heartbeat"}

\* The slots of the call in progress whose write succeeded / is unresolved.
OkSlots == { i \in DOMAIN sent : sent[i] = "ok" }
AnyPending == \E i \in DOMAIN sent : sent[i] = "pending"

\* A write that cannot resolve now: the channel is open and full.
Blocked(h) == chan[h] = "open" /\ ~ready[h]

\* C1: when send_to_clients returns, the collection holds exactly the handles
\* that were attached when it was called and whose own write (the one issued
\* against that handle) succeeded, each once, and none whose write failed.
C1_KeepsExactlySucceeded ==
    [][SendComplete =>
          /\ Range(clients') = { io[i].h : i \in OkSlots }
          /\ Range(clients') = { before[i] : i \in OkSlots }
          /\ Cardinality(Range(clients')) = Len(clients')
          /\ \A i \in DOMAIN sent : sent[i] = "err" => before[i] \notin Range(clients')
      ]_vars

\* C1 witness: a send over two handles has returned, the write to the first
\* failed and the write to the second succeeded, and only the second is kept.
C1_Witness ==
    /\ pc = "idle"
    /\ call = "send_to_clients"
    /\ Len(before) = 2
    /\ clients = <<before[2]>>
    /\ chan[before[1]] = "closed"
    /\ chan[before[2]] = "open"
    /\ ret = 1

\* C2: the value send_to_clients returns is the number of writes of that call
\* that succeeded, and connections() called right after returns the same value.
C2_ReturnsLiveCount ==
    /\ [][SendComplete => ret' = Cardinality(OkSlots)]_vars
    /\ [][(pc = "idle" /\ call \in Sends /\ Connections) => ret' = ret]_vars

\* C2 witness: two handles were attached, the first one's write succeeded and
\* the second one's failed, and the send returned 1.
C2_Witness ==
    /\ pc = "idle"
    /\ call = "send_to_clients"
    /\ Len(before) = 2
    /\ clients = <<before[1]>>
    /\ chan[before[2]] = "closed"
    /\ ret = 1

\* C3: within one send, a write that can resolve is never held up by another
\* handle's write that is still pending and blocked, whatever their order in
\* the collection.
C3_WritesIndependent ==
    \A a, b \in DOMAIN sent :
        ( /\ pc = "sending"
          /\ a # b
          /\ sent[a] = "pending"
          /\ Blocked(clients[a])
          /\ sent[b] = "pending"
          /\ ~Blocked(clients[b]) )
        => ENABLED WriteResolve(b)

\* C3 witness: the write to the second handle has been delivered while the
\* write to the first handle is pending and blocked.
C3_Witness ==
    /\ pc = "sending"
    /\ Len(sent) = 2
    /\ sent[1] = "pending"
    /\ Blocked(clients[1])
    /\ sent[2] = "ok"

\* C4: while a write of the send in progress is unresolved, the collection
\* is the one the call began with, the call has not returned, and no step
\* changes the collection or the returned count.
C4_JoinBeforeMutation ==
    /\ [](AnyPending => (pc = "sending" /\ clients = before))
    /\ [][AnyPending => (clients' = clients /\ ret' = ret /\ pc' = "sending")]_vars
    /\ [][(pc = "sending" /\ pc' = "idle") => ~AnyPending]_vars

\* C4 witness: one write has failed, another is unresolved, and the handle
\* whose write failed is still in the collection.
C4_Witness ==
    /\ pc = "sending"
    /\ \E i, j \in DOMAIN sent : sent[i] = "err" /\ sent[j] = "pending"
    /\ clients = before
    /\ Len(clients) = 2

\* Slot i of the send in progress is unresolved.
Pending(i) == pc = "sending" /\ i \in DOMAIN sent /\ sent[i] = "pending"

\* C5: no timeout on a write.  If every write of a send resolves, the send
\* returns; if the write in some slot never resolves, the send never returns
\* and the handle of that slot stays in the collection.
C5_NoWriteTimeout ==
    /\ (\A i \in Handles : []<>(~Pending(i))) => [](pc = "sending" => <>(pc = "idle"))
    /\ \A i \in Handles :
          <>[]Pending(i) => <>[](pc = "sending" /\ i \in DOMAIN clients /\ clients[i] = before[i])

\* C5 witness: a send is held up by one write only, to a client that is
\* connected and does not drain its stream; every other write has resolved.
C5_Witness ==
    /\ pc = "sending"
    /\ Len(sent) = 2
    /\ \E i \in DOMAIN sent :
          /\ sent[i] = "pending"
          /\ Blocked(clients[i])
          /\ \A j \in DOMAIN sent : j # i => sent[j] # "pending"

\* C6: disconnect_all aborts each handle of the collection once and no other
\* handle, and empties the collection; connections() right after returns 0;
\* no handle is aborted twice, and no write is issued to or pending on an
\* aborted handle.
C6_DisconnectAll ==
    /\ [][DisconnectAll =>
             /\ clients' = <<>>
             /\ \A h \in Handles :
                   aborts'[h] = aborts[h] + (IF h \in Range(clients) THEN 1 ELSE 0)
         ]_vars
    /\ [][(call = "disconnect_all" /\ Connections) => ret' = 0]_vars
    /\ [](call = "disconnect_all" => clients = <<>>)
    /\ [](\A h \in Handles : aborts[h] <= 1)
    /\ [](\A h \in Handles : aborts[h] > 0 => h \notin Range(clients))
    /\ [](\A i \in DOMAIN io : io[i].op = "write" => aborts[io[i].h] = 0)

\* C6 witness: disconnect_all has aborted two attached handles and a later
\* send has been called, which issued no write.
C6_Witness ==
    /\ \A h \in Handles : aborts[h] = 1
    /\ call \in Sends
    /\ io = <<>>
    /\ clients = <<>>

\* C7: send_heartbeat issues one write of the text ":\n\n" to each attached
\* handle, in the same slots as send_to_clients, and on return keeps the
\* handles and returns the count that a send of that text keeps and returns.
C7_HeartbeatIsBroadcast ==
    /\ [][SendHeartbeat =>
             /\ io' = [i \in 1..Len(clients) |->
                         [op |-> "write", h |-> clients[i], text |-> <<":", "\n", "\n">>]]
             /\ \E text \in Texts :
                   /\ text = <<":", "\n", "\n">>
                   /\ io' = Dispatch(clients, text)
                   /\ bytes' = text
             /\ sent' = [i \in 1..Len(clients) |-> "pending"]
             /\ clients' = clients
         ]_vars
    /\ [][(SendComplete /\ call = "send_heartbeat") =>
             /\ Range(clients') = { before[i] : i \in OkSlots }
             /\ ret' = Cardinality(OkSlots)
         ]_vars

\* C7 witness: a heartbeat over two handles has returned, one write of the
\* heartbeat frame was issued to each, one failed, and 1 was returned.
C7_Witness ==
    /\ pc = "idle"
    /\ call = "send_heartbeat"
    /\ Len(io) = 2
    /\ \A i \in DOMAIN io : io[i].text = <<":", "\n", "\n">>
    /\ Len(clients) = 1
    /\ ret = 1

\* C8: a send_heartbeat in which no write fails returns the collection it was
\* called with, in the same order, and the count it had.
C8_HeartbeatIdempotent ==
    [][(SendComplete /\ call = "send_heartbeat" /\ \A i \in DOMAIN sent : sent[i] = "ok") =>
          /\ clients' = before
          /\ clients' = clients
          /\ ret' = Len(before)
      ]_vars

\* C8 witness: a heartbeat over two connected handles has returned 2, its
\* frame is in both channels, and both handles are attached as before.
C8_Witness ==
    /\ pc = "idle"
    /\ call = "send_heartbeat"
    /\ Len(before) = 2
    /\ clients = before
    /\ \A h \in Handles : chan[h] = "open" /\ ~ready[h]
    /\ ret = 2

\* C9: add_client is enabled for every waiting handle when the lock is free;
\* it adds that handle and keeps every other one, the count grows by one, and
\* it issues no write or abort and changes no channel.
C9_AttachOnlyGrows ==
    /\ [](\A h \in Handles : (LockFree /\ req[h] = "waiting") => ENABLED AddClient(h))
    /\ [][\A h \in Handles : AddClient(h) =>
             /\ Range(clients') = Range(clients) \cup {h}
             /\ Len(clients') = Len(clients) + 1
             /\ \A i \in DOMAIN clients : clients'[i] = clients[i]
             /\ io' = <<>>
             /\ UNCHANGED <<chan, ready, aborts, sent, ret, pc>>
         ]_vars
    /\ [][(call = "add_client" /\ Connections) => ret' = Len(before) + 1]_vars

\* C9 witness: two handles were attached to a new server and connections()
\* returned 2.
C9_Witness ==
    /\ call = "connections"
    /\ ret = 2
    /\ clients = <<1, 2>>
    /\ bytes = <<>>
    /\ \A h \in Handles : aborts[h] = 0

\* C10: a handle that was attached, was not aborted by disconnect_all and
\* whose connection is open is in the collection, so the collection is never
\* smaller than the set of such handles.
Live == { h \in Handles : req[h] = "added" /\ aborts[h] = 0 /\ chan[h] = "open" }

C10_CountUpperBound ==
    /\ Live \subseteq Range(clients)
    /\ Len(clients) >= Cardinality(Live)

\* C10 witness: a send has returned and kept a connected handle while another
\* attached handle, whose connection died after the send, is still counted.
C10_Witness ==
    /\ pc = "idle"
    /\ call \in Sends
    /\ ret = 2
    /\ Len(clients) = 2
    /\ Cardinality(Live) = 1

\* C11: connections() returns the length of the collection, issues no write
\* and no abort, and changes neither the collection nor any channel, also
\* when the collection holds a handle whose connection is closed.
C11_CountIsPure ==
    [][Connections =>
          /\ ret' = Len(clients)
          /\ io' = <<>>
          /\ clients' = clients
          /\ ret' >= Cardinality({ h \in Range(clients) : chan[h] = "open" })
          /\ UNCHANGED <<chan, ready, aborts, sent, pc, req>>
      ]_vars

\* C11 witness: connections() has returned 2 for a collection of two handles
\* one of which has a closed connection.
C11_Witness ==
    /\ call = "connections"
    /\ ret = 2
    /\ Len(clients) = 2
    /\ \E h \in Range(clients) : chan[h] = "closed"
    /\ \E h \in Range(clients) : chan[h] = "open"

\* C12: a send never panics; once its writes have all resolved it can return,
\* whatever failed (also for the empty collection and when every write
\* failed), and it returns the count of the handles left, which is the count
\* it was called with less the number of failed writes.
ErrSlots == { i \in DOMAIN sent : sent[i] = "err" }

C12_FailuresOnlyPrune ==
    /\ [](pc # "panicked")
    /\ []((pc = "sending" /\ ~AnyPending) => ENABLED SendComplete)
    /\ [][SendComplete =>
             /\ pc' = "idle"
             /\ ret' = Len(clients')
             /\ ret' = Len(before) - Cardinality(ErrSlots)
             /\ \A i \in ErrSlots : before[i] \notin Range(clients')
         ]_vars

\* C12 witness: a send over two handles whose writes both failed has
\* returned 0 and the collection is empty.
C12_Witness ==
    /\ pc = "idle"
    /\ call \in Sends
    /\ Len(before) = 2
    /\ \A h \in Range(before) : chan[h] = "closed" /\ aborts[h] = 0
    /\ clients = <<>>
    /\ ret = 0

\* C13 as stated: a handle attached with its channel closed stays in the
\* collection through every step that is not the return of a send.
C13_StaysUntilSend ==
    [][\A h \in closedAtAttach :
          (h \in Range(clients) /\ ~SendComplete) => h \in Range(clients')]_vars

\* C13, amended: add_client takes a handle whose channel is already closed
\* like any other; the handle then stays in the collection through every
\* step that is neither the return of a send nor a disconnect_all; the write
\* a send issues to it fails, and the return of that send removes it.
C13_ClosedHandleAttached ==
    /\ [](\A h \in Handles :
            (LockFree /\ req[h] = "waiting" /\ chan[h] = "closed") => ENABLED AddClient(h))
    /\ [][\A h \in Handles : (AddClient(h) /\ chan[h] = "closed") =>
             (clients' = Append(clients, h) /\ Len(clients') = Len(clients) + 1)]_vars
    /\ [][\A h \in closedAtAttach :
             (h \in Range(clients) /\ ~SendComplete /\ ~DisconnectAll)
                 => h \in Range(clients')]_vars
    /\ [][(call = "add_client" /\ Connections) =>
             (ret' = Len(clients) /\ clients[Len(clients)] \in Range(clients'))]_vars
    /\ [](\A i \in DOMAIN sent : clients[i] \in closedAtAttach => sent[i] # "ok")
    /\ [][SendComplete => \A h \in closedAtAttach : h \notin Range(clients')]_vars

\* C13 witness: a handle that was closed when it was attached is in the
\* collection, a send has been called and its write to that handle has failed.
C13_Witness ==
    /\ pc = "sending"
    /\ \E i \in DOMAIN sent :
          /\ clients[i] \in closedAtAttach
          /\ sent[i] = "err"
    /\ Len(clients) = 2

(***************************************************************************)
(* Claims about EventBuilder::build, checked under EncSpec.  After         *)
(* BuildEvent, `encoded` is the text built from `builder`.                 *)
(***************************************************************************)

StartsWith(t, p) == Len(t) >= Len(p) /\ SubSeq(t, 1, Len(p)) = p
Drop(t, n) == SubSeq(t, n + 1, Len(t))

\* The segments of a text between its line breaks: n breaks give n + 1
\* segments, the empty ones included.
RECURSIVE SplitFrom(_, _)
SplitFrom(t, cur) ==
    IF t = <<>> THEN <<cur>>
    ELSE IF Head(t) = "\n" THEN <<cur>> \o SplitFrom(Tail(t), <<>>)
    ELSE SplitFrom(Tail(t), Append(cur, Head(t)))

SplitNL(t) == SplitFrom(t, <<>>)

\* The lines of an output text, each ended by a line break.
OutLines(t) == LET segs == SplitNL(t) IN SubSeq(segs, 1, Len(segs) - 1)

IdField == <<"i", "d", ":">>
EventField == <<"e", "v", "e", "n", "t", ":">>
DataField == <<"d", "a", "t", "a", ":">>

Built == encoded # <<>>
IdLineOf(b) == IF b.id = <<>> THEN <<>> ELSE IdField \o <<" ">> \o b.id[1] \o <<"\n">>
EventLineOf(b) ==
    IF b.event_type = <<>> THEN <<>> ELSE EventField \o <<" ">> \o b.event_type[1] \o <<"\n">>

\* C14: the output is the line "id: <id>" when the id is present, then the
\* line "event: <event>" when the event type is present, then lines that all
\* begin with "data: ", then one empty line; without an id (event type) the
\* output does not begin with "id:" (the part after the id line does not
\* begin with "event:").  An event with data only has no "id:" or "event:"
\* line and ends with exactly one empty line.
C14_EncodeLayout ==
    Built =>
        LET afterId == Drop(encoded, Len(IdLineOf(builder)))
            afterEvent == Drop(afterId, Len(EventLineOf(builder)))
            rest == OutLines(afterEvent)
            all == OutLines(encoded)
        IN  /\ StartsWith(encoded, IdLineOf(builder))
            /\ builder.id = <<>> => ~StartsWith(encoded, IdField)
            /\ StartsWith(afterId, EventLineOf(builder))
            /\ builder.event_type = <<>> => ~StartsWith(afterId, EventField)
            /\ afterEvent # <<>> /\ afterEvent[Len(afterEvent)] = "\n"
            /\ rest[Len(rest)] = <<>>
            /\ \A i \in 1..(Len(rest) - 1) : StartsWith(rest[i], DataField \o <<" ">>)
            /\ (builder = [data |-> <<"a", "\n", "b">>, id |-> << <<"1">> >>,
                           event_type |-> << <<"m", "s", "g">> >>])
                 => encoded = <<"i", "d", ":", " ", "1", "\n",
                                "e", "v", "e", "n", "t", ":", " ", "m", "s", "g", "\n",
                                "d", "a", "t", "a", ":", " ", "a", "\n",
                                "d", "a", "t", "a", ":", " ", "b", "\n", "\n">>
            /\ (builder.id = <<>> /\ builder.event_type = <<>>)
                 => /\ \A i \in DOMAIN all :
                          ~StartsWith(all[i], IdField) /\ ~StartsWith(all[i], EventField)
                    /\ all[Len(all)] = <<>>
                    /\ Len(all) > 1 => all[Len(all) - 1] # <<>>

\* C14 witness: the event with data "a\nb", id "1" and event type "msg" has
\* been built.
C14_Witness ==
    /\ builder.data = <<"a", "\n", "b">>
    /\ builder.id = << <<"1">> >>
    /\ builder.event_type = << <<"m", "s", "g">> >>
    /\ Len(encoded) = 34
    /\ OutLines(encoded)[4] = <<"d", "a", "t", "a", ":", " ", "b">>

\* The "data: <segment>" lines for a sequence of segments.
RECURSIVE DataLinePerSegment(_)
DataLinePerSegment(segs) ==
    IF segs = <<>> THEN <<>>
    ELSE DataField \o <<" ">> \o Head(segs) \o <<"\n">> \o DataLinePerSegment(Tail(segs))

\* C15: the output has one "data: <segment>" line for each segment of the
\* data between line breaks, in order, the empty segments included, followed
\* by the empty line; the data "" gives "data: \n\n".
C15_DataLinePerSegment ==
    Built =>
        /\ encoded = IdLineOf(builder) \o EventLineOf(builder)
                        \o DataLinePerSegment(SplitNL(builder.data)) \o <<"\n">>
        /\ (builder = [data |-> <<>>, id |-> <<>>, event_type |-> <<>>])
              => encoded = <<"d", "a", "t", "a", ":", " ", "\n", "\n">>

\* C16: every line of the output but the last begins with "id: ", "event: "
\* or "data: ", there is at most one "id: " and one "event: " line, and the
\* only empty line of the output is its last line.
C16_FramingIntact ==
    Built =>
        LET all == OutLines(encoded) IN
            /\ encoded[Len(encoded)] = "\n"
            /\ all[Len(all)] = <<>>
            /\ \A i \in 1..(Len(all) - 1) :
                  /\ all[i] # <<>>
                  /\ \/ StartsWith(all[i], IdField \o <<" ">>)
                     \/ StartsWith(all[i], EventField \o <<" ">>)
                     \/ StartsWith(all[i], DataField \o <<" ">>)
            /\ Cardinality({ i \in DOMAIN all : StartsWith(all[i], IdField) }) <= 1
            /\ Cardinality({ i \in DOMAIN all : StartsWith(all[i], EventField) }) <= 1

(***************************************************************************)
(* Claims about the life of a handle and about the lock.                   *)
(***************************************************************************)

\* A handle that was attached and is no longer in the collection.
Removed(h) == req[h] = "added" /\ h \notin Range(clients)

\* C17: a handle leaves the collection only in the return of a send whose
\* write to it failed or in a disconnect_all, never in another step and never
\* when its write succeeded; a removed handle stays removed; the handle
\* add_client adds was never attached before.
C17_HandleLifecycle ==
    /\ [][\A h \in Handles :
             (h \in Range(clients) /\ h \notin Range(clients')) =>
                 \/ DisconnectAll
                 \/ /\ SendComplete
                    /\ \E i \in DOMAIN sent : before[i] = h /\ sent[i] = "err"
         ]_vars
    /\ [][SendComplete =>
             \A i \in DOMAIN sent : sent[i] = "ok" => before[i] \in Range(clients')]_vars
    /\ [][\A h \in Handles : Removed(h) => Removed(h)']_vars
    /\ [][\A h \in Handles : AddClient(h) =>
             (req[h] # "added" /\ h \notin Range(clients) /\ aborts[h] = 0)]_vars

\* C17 witness: the first handle was pruned after a failed write, and a second
\* handle was attached afterwards and is the only member.
C17_Witness ==
    /\ call = "add_client"
    /\ before = <<>>
    /\ clients = <<2>>
    /\ Removed(1)
    /\ aborts[1] = 0
    /\ bytes # <<>>

\* C18: between the call of a send and its return no add_client and no
\* disconnect_all can run and no step changes the collection; the collection
\* never holds a handle twice; an attached handle is missing from it only
\* when its channel is closed; and a handle that waited for the lock during a
\* send is in the collection right after its add_client.
C18_MutationsExclusive ==
    /\ [](pc = "sending" =>
            /\ \A h \in Handles : ~ENABLED AddClient(h)
            /\ ~ENABLED DisconnectAll
            /\ Len(sent) = Len(clients))
    /\ [][pc = "sending" /\ pc' = "sending" => clients' = clients]_vars
    /\ [](Cardinality(Range(clients)) = Len(clients))
    /\ [](\A h \in Handles : Removed(h) => chan[h] = "closed")
    /\ [][\A h \in Handles : AddClient(h) =>
             (Range(clients') = Range(clients) \cup {h} /\ h \notin Range(clients))]_vars

\* C18 witness: a send over one handle is between its call and its return,
\* its write has succeeded, and a request task holds a second handle that it
\* cannot attach yet.
C18_Witness ==
    /\ pc = "sending"
    /\ clients = <<1>>
    /\ sent = <<"ok">>
    /\ req[2] = "waiting"
    /\ chan[2] = "open"

\* C19: while a send holds the lock, no add_client, connections,
\* disconnect_all or other send can run, and a handle waiting to be attached
\* keeps waiting; so when the write of some slot never resolves, from some
\* point on the send holds the lock for ever and none of them can ever run.
NothingElseRuns ==
    /\ \A h \in Handles : ~ENABLED AddClient(h)
    /\ ~ENABLED Connections
    /\ ~ENABLED DisconnectAll
    /\ ~ENABLED SendToClients
    /\ ~ENABLED SendHeartbeat

C19_StalledSendBlocksAll ==
    /\ [](pc = "sending" => NothingElseRuns)
    /\ [][(pc = "sending" /\ pc' = "sending") =>
             \A h \in Handles : req[h] = "waiting" => req'[h] = "waiting"]_vars
    /\ \A i \in Handles : <>[]Pending(i) => <>[](pc = "sending" /\ NothingElseRuns)

\* C19 witness: the only write of a send is blocked on a connected client
\* that does not drain its stream, and another handle waits to be attached.
C19_Witness ==
    /\ pc = "sending"
    /\ sent = <<"pending">>
    /\ Blocked(clients[1])
    /\ req[2] = "waiting"

\* C20: the call of a send issues one write to each handle of the collection
\* and nothing else, all with the text of the call; the resolution of a write
\* and the return of a send issue nothing; only disconnect_all aborts, so a
\* handle removed for a failed write was never aborted.
C20_OneWritePerHandle ==
    /\ [][(SendToClients \/ SendHeartbeat) =>
             /\ Len(io') = Len(clients)
             /\ \A h \in Range(clients) :
                   Cardinality({ i \in DOMAIN io' : io'[i].h = h }) = 1
             /\ \A i \in DOMAIN io' :
                   /\ io'[i].op = "write"
                   /\ io'[i].h \in Range(clients)
                   /\ io'[i].text = bytes'
             /\ bytes' \in Texts \cup { <<":", "\n", "\n">> }
         ]_vars
    /\ [][(SendComplete \/ \E i \in Handles : WriteResolve(i)) =>
             (io' = io /\ aborts' = aborts)]_vars
    /\ [][aborts' # aborts => DisconnectAll]_vars
    /\ [][SendComplete =>
             \A h \in Range(clients) : h \notin Range(clients') => aborts'[h] = 0]_vars

\* C20 witness: a send over two handles has returned; one write was issued to
\* each, with the same text; the handle whose write failed is gone and was
\* not aborted.
C20_Witness ==
    /\ pc = "idle"
    /\ call = "send_to_clients"
    /\ Len(io) = 2
    /\ io[1].h # io[2].h
    /\ io[1].text = io[2].text
    /\ Len(clients) = 1
    /\ \A h \in Handles : aborts[h] = 0

====
